---- MODULE Spec2Model ----
(***************************************************************************)
(* Model of versioning_tool/graph.py: the walk of graph_for_main over a    *)
(* decorated git log, the _short_msg truncation and the README section     *)
(* splice of write_graph_to_readme.                                        *)
(*                                                                         *)
(* Text is a sequence of atoms (TLA+ strings): a character where the code  *)
(* works on characters (commit subjects), a whole word where the code only *)
(* compares or copies it ("origin/", "dev", "## ").  Concatenation of      *)
(* Python strings is \o, str.replace / str.find / str.strip are the        *)
(* operators Replace / Find / Strip below.                                 *)
(***************************************************************************)
EXTENDS Integers, Sequences, FiniteSets, TLC

VARIABLES
    pc,             \* which call is running and where it stands
    log,            \* graph_for_main: the parsed log entries, oldest first
    idx,            \* graph_for_main: number of entries of log already walked
    lines,          \* graph_for_main: the output lines
    branches,       \* graph_for_main: dict name -> head, in insertion order
    current_branch, \* graph_for_main: the branch commits are attached to
    attached,       \* graph_for_main: per walked entry, the branch it advanced
                    \*   and the index in lines of the line it appended
    returned,       \* graph_for_main: the texts the finished calls returned
    msg,            \* _short_msg: argument msg
    length,         \* _short_msg: argument length
    result,         \* _short_msg: returned text
    text,           \* write_graph_to_readme: the README text read
    heading,        \* write_graph_to_readme: argument heading
    content,        \* write_graph_to_readme: argument content
    new             \* write_graph_to_readme: the text written back

vars == <<pc, log, idx, lines, branches, current_branch, attached, returned,
          msg, length, result, text, heading, content, new>>

graphVars == <<log, idx, lines, branches, current_branch, attached, returned>>
msgVars == <<msg, length, result>>
readmeVars == <<text, heading, content, new>>

(***************************************************************************)
(* Bounds of the checked input families.                                   *)
(***************************************************************************)
MaxLog == 3

MaxMsgLen == 4

MaxThreshold == 3

MaxText == 6

MaxRaw == 3

MaxCalls == 2

(***************************************************************************)
(* Python string primitives on sequences of atoms.                         *)
(***************************************************************************)
StartsWith(s, pre) ==
    /\ Len(s) >= Len(pre)
    /\ SubSeq(s, 1, Len(pre)) = pre

\* s[k:] for a 0-based k
Tail0(s, k) == SubSeq(s, k + 1, Len(s))

\* s[:k] for a 0-based k
Head0(s, k) == SubSeq(s, 1, k)

RECURSIVE Replace(_, _, _)
\* str.replace(old, rep): every non-overlapping occurrence, left to right
Replace(s, old, rep) ==
    IF s = <<>> THEN <<>>
    ELSE IF StartsWith(s, old) THEN rep \o Replace(Tail0(s, Len(old)), old, rep)
    ELSE <<Head(s)>> \o Replace(Tail(s), old, rep)

RECURSIVE Find(_, _, _)
\* str.find(pat, from): the lowest 0-based index >= from where pat occurs, or -1
Find(s, pat, from) ==
    IF from + Len(pat) > Len(s) THEN -1
    ELSE IF SubSeq(s, from + 1, from + Len(pat)) = pat THEN from
    ELSE Find(s, pat, from + 1)

Whitespace == {" ", "\n"}

RECURSIVE LStrip(_)
LStrip(s) ==
    IF s # <<>> /\ Head(s) \in Whitespace THEN LStrip(Tail(s)) ELSE s

RECURSIVE RStrip(_)
\* str.rstrip(): trailing whitespace removed
RStrip(s) ==
    IF s # <<>> /\ s[Len(s)] \in Whitespace
    THEN RStrip(SubSeq(s, 1, Len(s) - 1)) ELSE s

\* str.strip()
Strip(s) == RStrip(LStrip(s))

(***************************************************************************)
(* _short_msg                                                              *)
(***************************************************************************)
\* the one-character ellipsis U+2026, as one atom
Ellipsis == "..."

DefaultLength == 30

\* faulty variant: the length test off by one
ShortMsgOffByOne(m, len) ==
    LET clean == Replace(Strip(m), <<"\"">>, <<"'">>)
    IN  IF Len(clean) >= len THEN Head0(clean, len) \o <<Ellipsis>> ELSE clean

ShortMsg(m, len) ==
    LET clean == Replace(Strip(m), <<"\"">>, <<"'">>)
    IN  IF Len(clean) > len THEN Head0(clean, len) \o <<Ellipsis>> ELSE clean

(***************************************************************************)
(* graph_for_main: the log entries.  An entry is the four fields of one    *)
(* log line: sha, deco (the decoration tokens between the parentheses,     *)
(* each a sequence of atoms), msg (characters) and parents (shas).         *)
(***************************************************************************)
main_branch == <<"main">>

NoHead == "None"

Sha(i) == <<"a1", "a2", "a3", "a4", "a5", "a6">>[i]

\* a commit outside the queried window
Outside == "x0"

Subjects ==
    << <<"i", "n", "i", "t">>,
       <<"s", "t", "a", "r", "t", " ", "d", "e", "v">>,
       <<"r", "e", "l", "e", "a", "s", "e">>,
       <<"f", "i", "x", " ", "\"", "x", "\"", " ">> >>

SubjectAt(i) == Subjects[((i - 1) % Len(Subjects)) + 1]

TokDev == <<"dev">>
TokFeat == <<"feat">>
TokOriginDev == <<"origin/", "dev">>
TokOriginFeat == <<"origin/", "feat">>
TokHeadDev == <<"HEAD ->", " ", "dev">>
TokTag1 == <<"tag:", " ", "v1.0">>
TokTag2 == <<"tag:", " ", "v2.0">>

\* the decoration fields tried, as git prints them with --decorate=short
\* (already stripped of " ()" and split at ", ")
Decos ==
    { <<>>,
      <<TokDev>>,
      <<TokTag1>>,
      <<TokHeadDev, TokOriginDev>>,
      <<TokDev, TokFeat, TokOriginFeat, TokTag2>> }

Known(i) == {Sha(j) : j \in 1..(i - 1)} \cup {Outside}

\* the parent fields tried: the first commit is a root; a later one continues
\* the previous commit, merges an older or outside commit into it, or merges
\* it (--no-ff) into the commit before it
ParentLists(i) ==
    IF i = 1 THEN {<<>>}
    ELSE LET prev == Sha(i - 1)
             other == IF i = 2 THEN Outside ELSE Sha(i - 2)
         IN  {<<prev>>, <<other, prev>>}
             \cup {<<prev, q>> : q \in Known(i) \ {prev}}

AllParentLists == UNION {ParentLists(i) : i \in 1..(MaxLog + 1)}

\* the log of n entries with decoration fields ds and parent fields ps
LogOf(n, ds, ps) ==
    [i \in 1..n |->
        [sha |-> Sha(i), deco |-> ds[i], msg |-> SubjectAt(i), parents |-> ps[i]]]

\* a log of the input family: entry i draws its decoration field from Decos
\* and its parent field from ParentLists(i)
IsLog(l) ==
    \E n \in 0..MaxLog :
        \E ps \in {f \in [1..n -> AllParentLists] :
                      \A i \in 1..n : f[i] \in ParentLists(i)} :
            \E ds \in [1..n -> Decos] : l = LogOf(n, ds, ps)

(***************************************************************************)
(* graph_for_main: one entry of the loop.                                  *)
(***************************************************************************)
\* deco.split(", "): an empty field splits into one empty token
DecoSplit(deco) == IF deco = <<>> THEN << <<>> >> ELSE deco

IsTagToken(d) == StartsWith(d, <<"tag:">>)

\* faulty variant: the empty token of an empty decoration field is not skipped
IsBranchTokenOrEmpty(d) ==
    /\ ~StartsWith(d, <<"tag:">>)
    /\ ~StartsWith(d, <<"HEAD ->">>)

IsBranchToken(d) ==
    /\ d # <<>>
    /\ ~StartsWith(d, <<"tag:">>)
    /\ ~StartsWith(d, <<"HEAD ->">>)

Tags(deco) == SelectSeq(DecoSplit(deco), IsTagToken)

BranchNames(deco) ==
    LET toks == SelectSeq(DecoSplit(deco), IsBranchToken)
    IN  [k \in 1..Len(toks) |-> Replace(toks[k], <<"origin/">>, <<>>)]

RECURSIVE TagSuffix(_)
TagSuffix(tags) ==
    IF tags = <<>> THEN <<>>
    ELSE <<" tag: \"">> \o Replace(Head(tags), <<"tag:", " ">>, <<>>) \o <<"\"">>
         \o TagSuffix(Tail(tags))

CommitLine(e) ==
    <<"    commit id: \"">> \o (<<e.sha, " ">> \o ShortMsg(e.msg, DefaultLength))
    \o <<"\"">> \o TagSuffix(Tags(e.deco))

BranchLine(b) == <<"    branch ">> \o b

MergeLineOf(b) == <<"    merge ">> \o b

RootLine == <<"    commit id: \"", "root", "\"">>

\* the atom Fence stands for the three backquotes of a markdown code fence
Fence == "fence"

FenceOpen == <<Fence, "mermaid">>

FenceClose == <<Fence>>

HasBranch(brs, b) == \E k \in 1..Len(brs) : brs[k].name = b

SetHead(brs, b, h) ==
    IF HasBranch(brs, b)
    THEN [k \in 1..Len(brs) |->
             IF brs[k].name = b THEN [name |-> b, head |-> h] ELSE brs[k]]
    ELSE Append(brs, [name |-> b, head |-> h])

RECURSIVE EnsureBranchesAgain(_, _, _)
\* faulty variant: a branch is created without looking it up in branches
EnsureBranchesAgain(names, sha, st) ==
    IF names = <<>> THEN st
    ELSE EnsureBranchesAgain(Tail(names), sha,
             [lines |-> Append(st.lines, BranchLine(Head(names))),
              branches |-> SetHead(st.branches, Head(names), sha),
              current_branch |-> Head(names)])

RECURSIVE EnsureBranchesSilent(_, _, _)
\* faulty variant: a new branch is tracked and made current, its line is not emitted
EnsureBranchesSilent(names, sha, st) ==
    IF names = <<>> THEN st
    ELSE LET b == Head(names)
             st2 == IF ~HasBranch(st.branches, b)
                    THEN [lines |-> st.lines,
                          branches |-> SetHead(st.branches, b, sha),
                          current_branch |-> b]
                    ELSE st
         IN  EnsureBranchesSilent(Tail(names), sha, st2)

RECURSIVE EnsureBranches(_, _, _)
\* the loop over branch_names; st is [lines, branches, current_branch]
EnsureBranches(names, sha, st) ==
    IF names = <<>> THEN st
    ELSE LET b == Head(names)
             st2 == IF ~HasBranch(st.branches, b)
                    THEN [lines |-> Append(st.lines, BranchLine(b)),
                          branches |-> SetHead(st.branches, b, sha),
                          current_branch |-> b]
                    ELSE st
         IN  EnsureBranches(Tail(names), sha, st2)

\* faulty variant: an unmatched parent falls back to the first branch of the map
ParentBranchOrFirst(brs, parent) ==
    LET hits == {k \in 1..Len(brs) : brs[k].head = parent}
    IN  IF hits = {} THEN brs[1].name
        ELSE brs[CHOOSE k \in hits : \A j \in hits : k <= j].name

\* next((b for b, h in branches.items() if h == parent), None); <<>> is None
ParentBranch(brs, parent) ==
    LET hits == {k \in 1..Len(brs) : brs[k].head = parent}
    IN  IF hits = {} THEN <<>>
        ELSE brs[CHOOSE k \in hits : \A j \in hits : k <= j].name

RECURSIVE ResolveMerges(_, _, _)
\* the loop over parents[1:], which rewrites commit_line
ResolveMerges(extra, brs, commit_line) ==
    IF extra = <<>> THEN commit_line
    ELSE LET parent_branch == ParentBranch(brs, Head(extra))
         IN  ResolveMerges(Tail(extra), brs,
                 IF parent_branch # <<>> THEN MergeLineOf(parent_branch)
                 ELSE commit_line)

FinalLine(e, brs) ==
    IF Len(e.parents) > 1
    THEN ResolveMerges(Tail(e.parents), brs, CommitLine(e))
    ELSE CommitLine(e)

(***************************************************************************)
(* graph_for_main as a state machine.                                      *)
(***************************************************************************)
IdleMsg == msg = <<>> /\ length = 0 /\ result = <<>>

IdleReadme == text = <<>> /\ heading = <<>> /\ content = <<>> /\ new = <<>>

\* the state when the loop is reached: lines 59-62 have run
GraphInit ==
    /\ pc = "graph_loop"
    /\ IsLog(log)
    /\ idx = 0
    /\ lines = <<FenceOpen, <<"gitGraph">>, RootLine>>
    /\ branches = <<[name |-> main_branch, head |-> NoHead]>>
    /\ current_branch = main_branch
    /\ attached = <<>>
    /\ returned = <<>>
    /\ IdleMsg
    /\ IdleReadme

\* one turn of the loop over log
GraphEntry ==
    /\ pc = "graph_loop"
    /\ idx < Len(log)
    /\ LET e == log[idx + 1]
           st == EnsureBranches(BranchNames(e.deco), e.sha,
                     [lines |-> lines, branches |-> branches,
                      current_branch |-> current_branch])
       IN  /\ lines' = Append(st.lines, FinalLine(e, st.branches))
           /\ branches' = SetHead(st.branches, st.current_branch, e.sha)
           /\ current_branch' = st.current_branch
           /\ attached' = Append(attached,
                   [branch |-> st.current_branch, at |-> Len(st.lines) + 1])
    /\ idx' = idx + 1
    /\ UNCHANGED <<pc, log, returned, msgVars, readmeVars>>

\* the loop is over: the closing fence, and the text is returned
GraphFinish ==
    /\ pc = "graph_loop"
    /\ idx = Len(log)
    /\ lines' = Append(lines, FenceClose)
    /\ returned' = Append(returned, lines')
    /\ pc' = "graph_done"
    /\ UNCHANGED <<log, idx, branches, current_branch, attached, msgVars, readmeVars>>

GraphNext == GraphEntry \/ GraphFinish

Spec == GraphInit /\ [][GraphNext]_vars

(***************************************************************************)
(* graph_for_main called again on the same log lines: lines, branches and  *)
(* current_branch are locals, made anew by lines 59-62 of every call.      *)
(***************************************************************************)
\* faulty variant: branches and current_branch outlive the call
StaleLocals ==
    [lines |-> <<FenceOpen, <<"gitGraph">>, RootLine>>,
     branches |-> branches,
     current_branch |-> current_branch]

FreshLocals ==
    [lines |-> <<FenceOpen, <<"gitGraph">>, RootLine>>,
     branches |-> <<[name |-> main_branch, head |-> NoHead]>>,
     current_branch |-> main_branch]

\* the next call, up to its loop
GraphAgain ==
    /\ pc = "graph_done"
    /\ Len(returned) < MaxCalls
    /\ lines' = FreshLocals.lines
    /\ branches' = FreshLocals.branches
    /\ current_branch' = FreshLocals.current_branch
    /\ idx' = 0
    /\ attached' = <<>>
    /\ pc' = "graph_loop"
    /\ UNCHANGED <<log, returned, msgVars, readmeVars>>

SpecTwice == GraphInit /\ [][GraphNext \/ GraphAgain]_vars

IdleGraph ==
    /\ log = <<>>
    /\ idx = 0
    /\ lines = <<>>
    /\ branches = <<>>
    /\ current_branch = <<>>
    /\ attached = <<>>
    /\ returned = <<>>

(***************************************************************************)
(* _short_msg as a call: any subject of up to MaxMsgLen characters, any    *)
(* threshold up to MaxThreshold.                                           *)
(***************************************************************************)
MsgChars == {"a", "\"", " "}

MsgInit ==
    /\ pc = "msg_call"
    /\ msg \in UNION {[1..n -> MsgChars] : n \in 0..MaxMsgLen}
    /\ length \in 0..MaxThreshold
    /\ result = <<>>
    /\ IdleGraph
    /\ IdleReadme

ShortMsgCall ==
    /\ pc = "msg_call"
    /\ result' = ShortMsg(msg, length)
    /\ pc' = "msg_done"
    /\ UNCHANGED <<msg, length, graphVars, readmeVars>>

SpecMsg == MsgInit /\ [][ShortMsgCall]_vars

(***************************************************************************)
(* write_graph_to_readme.  The README is a sequence of the atoms "\n",     *)
(* "## " (the prefix of a level-2 heading), "H" and "x" (text of a heading *)
(* or of a body); a missing file reads as the empty text.                  *)
(***************************************************************************)
DocAtoms == {"\n", "## ", "H", "x"}

Headings == {<<"H">>, <<"x">>}

Contents == {<<"c">>}

\* faulty variant: the text from the next heading on is not copied
WriteGraphToReadmeDropTail(t, h, c) ==
    LET marker == <<"\n", "## ">> \o h \o <<"\n">>
        start == Find(t, marker, 0)
    IN  IF start = -1
        THEN RStrip(t) \o marker \o <<"\n">> \o c \o <<"\n">>
        ELSE Head0(t, start) \o marker \o <<"\n">> \o c \o <<"\n">>

WriteGraphToReadme(t, h, c) ==
    LET marker == <<"\n", "## ">> \o h \o <<"\n">>
        start == Find(t, marker, 0)
        next_h == Find(t, <<"\n", "## ">>, start + 1)
    IN  IF start = -1
        THEN RStrip(t) \o marker \o <<"\n">> \o c \o <<"\n">>
        ELSE IF next_h = -1
             THEN Head0(t, start) \o marker \o <<"\n">> \o c \o <<"\n">>
             ELSE Head0(t, start) \o marker \o <<"\n">> \o c \o <<"\n">>
                  \o Tail0(t, next_h)

ReadmeInit ==
    /\ pc = "readme_call"
    /\ text \in UNION {[1..n -> DocAtoms] : n \in 0..MaxText}
    /\ heading \in Headings
    /\ content \in Contents
    /\ new = <<>>
    /\ IdleGraph
    /\ IdleMsg

ReadmeWrite ==
    /\ pc = "readme_call"
    /\ new' = WriteGraphToReadme(text, heading, content)
    /\ pc' = "readme_done"
    /\ UNCHANGED <<text, heading, content, graphVars, msgVars>>

SpecReadme == ReadmeInit /\ [][ReadmeWrite]_vars

(***************************************************************************)
(* graph_for_main on logs with octopus merges: from the third entry on, an *)
(* entry may have three parents, any three of the earlier commits and the  *)
(* outside one.                                                            *)
(***************************************************************************)
OctoParentLists(i) ==
    IF i = 1 THEN {<<>>}
    ELSE {<<Sha(i - 1)>>}
         \cup {t \in Known(i) \X Known(i) \X Known(i) :
                  t[1] # t[2] /\ t[2] # t[3] /\ t[1] # t[3]}

AllOctoParentLists == UNION {OctoParentLists(i) : i \in 1..(MaxLog + 1)}

IsOctoLog(l) ==
    \E n \in 0..MaxLog :
        \E ps \in {f \in [1..n -> AllOctoParentLists] :
                      \A i \in 1..n : f[i] \in OctoParentLists(i)} :
            \E ds \in [1..n -> Decos] : l = LogOf(n, ds, ps)

OctoInit ==
    /\ pc = "graph_loop"
    /\ IsOctoLog(log)
    /\ idx = 0
    /\ lines = <<FenceOpen, <<"gitGraph">>, RootLine>>
    /\ branches = <<[name |-> main_branch, head |-> NoHead]>>
    /\ current_branch = main_branch
    /\ attached = <<>>
    /\ returned = <<>>
    /\ IdleMsg
    /\ IdleReadme

SpecOcto == OctoInit /\ [][GraphNext]_vars

(***************************************************************************)
(* graph_for_main on the raw log lines.  Here log holds the lines as       *)
(* run_git(...).splitlines() returns them, each a sequence of atoms in the *)
(* format %h|%d|%s|%p, and the loop splits each line itself.               *)
(***************************************************************************)
RECURSIVE SplitMax(_, _, _)
\* str.split(sep, max) for a separator of one atom: at most max splits
SplitMax(s, sep, max) ==
    LET k == Find(s, <<sep>>, 0)
    IN  IF max = 0 \/ k = -1 THEN <<s>>
        ELSE <<Head0(s, k)>> \o SplitMax(Tail0(s, k + 1), sep, max - 1)

RECURSIVE StripLeft(_, _)
StripLeft(s, chars) ==
    IF s # <<>> /\ Head(s) \in chars THEN StripLeft(Tail(s), chars) ELSE s

RECURSIVE StripRight(_, _)
StripRight(s, chars) ==
    IF s # <<>> /\ s[Len(s)] \in chars
    THEN StripRight(SubSeq(s, 1, Len(s) - 1), chars) ELSE s

\* str.strip(chars)
StripChars(s, chars) == StripRight(StripLeft(s, chars), chars)

RECURSIVE Words(_)
\* str.split(): the runs of atoms between whitespace
Words(s) ==
    LET t == LStrip(s)
        blanks == {k \in 1..Len(t) : t[k] \in Whitespace}
    IN  IF t = <<>> THEN <<>>
        ELSE IF blanks = {} THEN <<t>>
        ELSE LET k == CHOOSE i \in blanks : \A j \in blanks : i <= j
             IN  <<SubSeq(t, 1, k - 1)>> \o Words(Tail0(t, k))

RECURSIVE Join(_)
\* the string a sequence of atoms spells
Join(t) == IF t = <<>> THEN "" ELSE Head(t) \o Join(Tail(t))

\* lines 65-67: the entry the four fields of a line give
ParseEntry(parts) ==
    LET deco == StripChars(parts[2], {" ", "(", ")"})
        parents == IF parts[4] # <<>> THEN Words(parts[4]) ELSE <<>>
    IN  [sha |-> Join(parts[1]),
         deco |-> IF deco = <<>> THEN <<>> ELSE SplitMax(deco, ", ", Len(deco)),
         msg |-> parts[3],
         parents |-> [k \in 1..Len(parents) |-> Join(parents[k])]]

\* --pretty=format:%h|%d|%s|%p
FormatLine(sha, d, subj, p) ==
    <<sha, "|">> \o d \o <<"|">> \o subj \o <<"|">> \o p

RawDecos ==
    { <<>>,
      <<" ", "(", "dev", ")">>,
      <<" ", "(", "HEAD ->", " ", "main", ", ", "tag:", " ", "v1.0", ")">> }

\* a plain subject, and one that holds the delimiter
RawSubjects == { <<"o", "k">>, <<"a", "|", "b">> }

RawParents(i) ==
    IF i = 1 THEN {<<>>}
    ELSE {<<Sha(i - 1)>>,
          <<Sha(i - 1), " ", IF i = 2 THEN Outside ELSE Sha(i - 2)>>}

\* the lines tried at place i: every formatted line, and two cut short
RawLines(i) ==
    {FormatLine(Sha(i), d, subj, p) :
        d \in RawDecos, subj \in RawSubjects, p \in RawParents(i)}
    \cup {<<Sha(i)>>, <<Sha(i), "|", "|", "o", "k">>}

AllRawLines == UNION {RawLines(i) : i \in 1..(MaxRaw + 1)}

IsRawLog(l) ==
    \E n \in 0..MaxRaw :
        /\ l \in [1..n -> AllRawLines]
        /\ \A i \in 1..n : l[i] \in RawLines(i)

RawInit ==
    /\ pc = "graph_loop"
    /\ IsRawLog(log)
    /\ idx = 0
    /\ lines = <<FenceOpen, <<"gitGraph">>, RootLine>>
    /\ branches = <<[name |-> main_branch, head |-> NoHead]>>
    /\ current_branch = main_branch
    /\ attached = <<>>
    /\ returned = <<>>
    /\ IdleMsg
    /\ IdleReadme

\* one turn of the loop over the raw lines: the unpacking of line 65 raises
\* ValueError unless the split gives four fields, and the call ends there
RawEntry ==
    /\ pc = "graph_loop"
    /\ idx < Len(log)
    /\ LET parts == SplitMax(log[idx + 1], "|", 3)
       IN  IF Len(parts) # 4
           THEN /\ pc' = "graph_error"
                /\ UNCHANGED <<idx, lines, branches, current_branch, attached>>
           ELSE LET e == ParseEntry(parts)
                    st == EnsureBranches(BranchNames(e.deco), e.sha,
                              [lines |-> lines, branches |-> branches,
                               current_branch |-> current_branch])
                IN  /\ lines' = Append(st.lines, FinalLine(e, st.branches))
                    /\ branches' = SetHead(st.branches, st.current_branch, e.sha)
                    /\ current_branch' = st.current_branch
                    /\ attached' = Append(attached,
                            [branch |-> st.current_branch, at |-> Len(st.lines) + 1])
                    /\ idx' = idx + 1
                    /\ pc' = pc
    /\ UNCHANGED <<log, returned, msgVars, readmeVars>>

RawNext == RawEntry \/ GraphFinish

SpecRaw == RawInit /\ [][RawNext]_vars

(***************************************************************************)
(* Reading the output: what a line is, by its text alone.                  *)
(***************************************************************************)
IsCommitOf(l, sha) ==
    /\ Len(l) >= 3
    /\ l[1] = "    commit id: \""
    /\ l[2] = sha

IsMerge(l) == l # <<>> /\ l[1] = "    merge "

IsMergeOf(l, b) == l = <<"    merge ">> \o b

IsBranchOf(l, b) == l = <<"    branch ">> \o b

IsStructural(l) ==
    l # <<>> /\ l[1] \in {"    branch ", "    checkout ", "    merge "}

\* the line carries tag: "name"
CarriesTag(l, name) ==
    \E k \in 1..(Len(l) - 2) :
        l[k] = " tag: \"" /\ l[k + 1] = name /\ l[k + 2] = "\""

\* the lines the entry walked last has appended
LastAppended(before, after) == SubSeq(after, Len(before) + 1, Len(after))

\* a step of the walk over one entry
WalkStep == pc = "graph_loop" /\ idx' = idx + 1

\* the tracked branches whose recorded head is id
HeadIs(brs, id) == {brs[k].name : k \in {j \in 1..Len(brs) : brs[j].head = id}}

(***************************************************************************)
(* C1: a record with exactly two parents whose second parent is the head   *)
(* recorded for a tracked branch B gets a merge line for B immediately     *)
(* followed by its own commit line.                                        *)
(***************************************************************************)
C1_MergeThenCommit ==
    [][WalkStep =>
        LET e == log[idx + 1]
            n == Len(lines')
        IN  (Len(e.parents) = 2 /\ HeadIs(branches, e.parents[2]) # {}) =>
                /\ \E b \in HeadIs(branches, e.parents[2]) :
                       IsMergeOf(lines'[n - 1], b)
                /\ IsCommitOf(lines'[n], e.sha)]_vars

(***************************************************************************)
(* C2: the end-to-end example: a1 'init', a2 (dev) 'start dev', a3 (tag    *)
(* v1.0) 'release' merging a1 gives Root, Commit a1, BranchCreate dev,     *)
(* Commit a2, Merge main, Commit a3 tagged v1.0, in this order.            *)
(***************************************************************************)
ExampleLog ==
    << [sha |-> "a1", deco |-> <<>>, msg |-> <<"i", "n", "i", "t">>,
        parents |-> <<>>],
       [sha |-> "a2", deco |-> << <<"dev">> >>,
        msg |-> <<"s", "t", "a", "r", "t", " ", "d", "e", "v">>,
        parents |-> <<"a1">>],
       [sha |-> "a3", deco |-> << <<"tag:", " ", "v1.0">> >>,
        msg |-> <<"r", "e", "l", "e", "a", "s", "e">>,
        parents |-> <<"a2", "a1">>] >>

ExampleOps ==
    << <<"    commit id: \"", "root", "\"">>,
       <<"    commit id: \"", "a1", " ", "i", "n", "i", "t", "\"">>,
       <<"    branch ", "dev">>,
       <<"    commit id: \"", "a2", " ", "s", "t", "a", "r", "t", " ", "d", "e", "v", "\"">>,
       <<"    merge ", "main">>,
       <<"    commit id: \"", "a3", " ", "r", "e", "l", "e", "a", "s", "e", "\"",
         " tag: \"", "v1.0", "\"">> >>

C2_EndToEnd ==
    (pc = "graph_done" /\ log = ExampleLog) =>
        SubSeq(lines, 3, Len(lines) - 1) = ExampleOps

(***************************************************************************)
(* C3: every branch name that appears as a branch decoration on a walked   *)
(* record (also in its origin/ form) and is not the starting branch has    *)
(* exactly one branch-creation line in the output.                         *)
(***************************************************************************)
IsBranchDecoration(d) == d # <<>> /\ d[1] \notin {"tag:", "HEAD ->"}

LocalName(d) == IF d[1] = "origin/" THEN Tail(d) ELSE d

BranchDecorationsUpTo(n) ==
    UNION {{LocalName(log[k].deco[j]) :
              j \in {i \in 1..Len(log[k].deco) : IsBranchDecoration(log[k].deco[i])}} :
           k \in 1..n}

CreationsOf(b) == {j \in 1..Len(lines) : IsBranchOf(lines[j], b)}

C3_OneBranchCreate ==
    \A b \in BranchDecorationsUpTo(idx) \ {<<"main">>} :
        Cardinality(CreationsOf(b)) = 1

\* dev is decorated on two walked records, once as origin/dev, and created once
C3_Witness ==
    /\ pc = "graph_done"
    /\ \E k1, k2 \in 1..Len(log) :
          /\ k1 < k2
          /\ log[k1].deco = << <<"dev">> >>
          /\ \E j \in 1..Len(log[k2].deco) : log[k2].deco[j] = <<"origin/", "dev">>
    /\ Cardinality(CreationsOf(<<"dev">>)) = 1

(***************************************************************************)
(* C4: a log with no decoration and no record of more than one parent      *)
(* gives Root and then one commit line per record, in input order, and no  *)
(* branch, checkout or merge line.                                         *)
(***************************************************************************)
PlainLog ==
    \A k \in 1..Len(log) : log[k].deco = <<>> /\ Len(log[k].parents) <= 1

C4_PlainWalk ==
    (PlainLog /\ pc = "graph_done") =>
        /\ Len(lines) = Len(log) + 4
        /\ lines[3] = <<"    commit id: \"", "root", "\"">>
        /\ \A k \in 1..Len(log) :
              /\ IsCommitOf(lines[3 + k], log[k].sha)
              /\ lines[3 + k][Len(lines[3 + k])] = "\""
              /\ ~\E t \in 1..Len(lines[3 + k]) : lines[3 + k][t] = " tag: \""
        /\ \A j \in 1..Len(lines) : ~IsStructural(lines[j])

C4_Witness ==
    /\ PlainLog
    /\ pc = "graph_done"
    /\ Len(log) >= 2
    /\ IsCommitOf(lines[5], "a2")

C4_WitnessEmpty ==
    /\ pc = "graph_done"
    /\ log = <<>>

(***************************************************************************)
(* C5: a record with two parents whose second parent is the recorded head  *)
(* of no tracked branch gets an ordinary commit line and no merge line,    *)
(* and the walk goes on.                                                   *)
(***************************************************************************)
C5_UnresolvedMerge ==
    [][WalkStep =>
        LET e == log[idx + 1]
            n == Len(lines')
            added == LastAppended(lines, lines')
        IN  (Len(e.parents) = 2 /\ HeadIs(branches, e.parents[2]) = {}) =>
                /\ IsCommitOf(lines'[n], e.sha)
                /\ \A j \in 1..Len(added) : ~IsMerge(added[j])
                /\ pc' = "graph_loop"]_vars

C5_Witness ==
    /\ idx >= 1
    /\ Len(log[idx].parents) = 2
    /\ log[idx].parents[2] = "x0"
    /\ IsCommitOf(lines[Len(lines)], log[idx].sha)

(***************************************************************************)
(* C6: every tag decoration of a walked record is a tag of the commit line *)
(* emitted for that record, also when the record is a resolved merge.      *)
(***************************************************************************)
TagNames(deco) ==
    {Tail(Tail(deco[j])) : j \in {i \in 1..Len(deco) :
                                     deco[i] # <<>> /\ deco[i][1] = "tag:"}}

C6_TagsOnCommit ==
    [][WalkStep =>
        LET e == log[idx + 1]
            added == LastAppended(lines, lines')
        IN  \A t \in TagNames(e.deco) :
                \E j \in 1..Len(added) :
                    IsCommitOf(added[j], e.sha) /\ CarriesTag(added[j], t[1])]_vars

(***************************************************************************)
(* C8: current_branch is always a key of branches, and every branch of the *)
(* map other than the starting branch had its branch-creation line emitted *)
(* before any commit was attached to it.                                   *)
(***************************************************************************)
BranchKeys == {branches[k].name : k \in 1..Len(branches)}

C8_BranchState ==
    /\ current_branch \in BranchKeys
    /\ \A b \in BranchKeys \ {<<"main">>} :
          /\ CreationsOf(b) # {}
          /\ \A k \in 1..Len(attached) :
                attached[k].branch = b =>
                    \E j \in CreationsOf(b) : j < attached[k].at

C8_Witness ==
    /\ Len(attached) >= 2
    /\ attached[Len(attached)].branch = <<"feat">>
    /\ attached[1].branch = <<"dev">>
    /\ current_branch = <<"feat">>

(***************************************************************************)
(* C7: _short_msg(msg, length).                                            *)
(***************************************************************************)
QuotesReplaced(m) == [k \in 1..Len(m) |-> IF m[k] = "\"" THEN "'" ELSE m[k]]

\* As claimed: a subject longer than length gives its first length characters
\* and one ellipsis; any other subject comes back with only its double quotes
\* replaced.
C7_AsClaimed ==
    pc = "msg_done" =>
        IF Len(msg) > length
        THEN result = SubSeq(msg, 1, length) \o <<"...">>
        ELSE result = QuotesReplaced(msg)

NonBlank(m) == {k \in 1..Len(m) : m[k] \notin {" ", "\n"}}

\* msg without its leading and trailing whitespace, double quotes replaced
Cleaned(m) ==
    IF NonBlank(m) = {} THEN <<>>
    ELSE LET lo == CHOOSE k \in NonBlank(m) : \A j \in NonBlank(m) : k <= j
             hi == CHOOSE k \in NonBlank(m) : \A j \in NonBlank(m) : k >= j
         IN  QuotesReplaced(SubSeq(m, lo, hi))

\* C7 as amended: with clean the subject stripped of surrounding whitespace
\* and with its double quotes replaced, a clean longer than length gives the
\* first length characters of clean and one ellipsis, any other gives clean.
C7_ShortMsg ==
    pc = "msg_done" =>
        IF Len(Cleaned(msg)) > length
        THEN result = SubSeq(Cleaned(msg), 1, length) \o <<"...">>
        ELSE result = Cleaned(msg)

C7_Witness ==
    /\ pc = "msg_done"
    /\ length = 2
    /\ msg = <<" ", "\"", "a", "a">>
    /\ result = <<"'", "a", "...">>

(***************************************************************************)
(* C9 and C10: write_graph_to_readme.                                      *)
(***************************************************************************)
\* the positions where a line "## heading" starts in t
HeadingLines(t, h) ==
    {k \in 1..Len(t) :
        /\ t[k] = "## "
        /\ k = 1 \/ t[k - 1] = "\n"
        /\ k + Len(h) <= Len(t)
        /\ SubSeq(t, k + 1, k + Len(h)) = h
        /\ k + Len(h) = Len(t) \/ t[k + Len(h) + 1] = "\n"}

\* the positions where a line of a level-2 heading starts in t
Level2Lines(t) ==
    {k \in 1..Len(t) : t[k] = "## " /\ (k = 1 \/ t[k - 1] = "\n")}

Least(S) == CHOOSE k \in S : \A j \in S : k <= j

\* the section appended for heading h and content c
NewSection(h, c) == <<"\n", "## ">> \o h \o <<"\n", "\n">> \o c \o <<"\n">>

EndsWith(s, suf) ==
    /\ Len(s) >= Len(suf)
    /\ SubSeq(s, Len(s) - Len(suf) + 1, Len(s)) = suf

\* C9: a document that has the section (its heading once, anywhere, also on
\* the first line) has the body up to the next level-2 heading replaced by
\* content and the heading once afterwards; a document without the heading
\* gets the new section appended at its end.
C9_ReplaceOrAppend ==
    pc = "readme_done" =>
        /\ Cardinality(HeadingLines(text, heading)) = 1 =>
              LET k == Least(HeadingLines(text, heading))
                  later == {j \in Level2Lines(text) : j > k}
                  rest == IF later = {} THEN <<>>
                          ELSE SubSeq(text, Least(later), Len(text))
              IN  /\ Cardinality(HeadingLines(new, heading)) = 1
                  /\ \E body \in {<<"\n">> \o content \o <<"\n">>} :
                        \E p \in 0..Len(new) :
                            /\ SubSeq(new, p + 1, Len(new))
                                 = <<"## ">> \o heading \o <<"\n">> \o body \o rest
                            /\ SubSeq(new, 1, p) \in
                                 {SubSeq(text, 1, k - 1), SubSeq(text, 1, k - 1) \o <<"\n">>}
        /\ HeadingLines(text, heading) = {} =>
              EndsWith(new, NewSection(heading, content))

\* C10 as claimed: the text before the heading line and the text from the next
\* level-2 heading on, or the whole text when the heading is absent, is in the
\* written document unchanged and in order.
C10_AsClaimed ==
    pc = "readme_done" =>
        IF HeadingLines(text, heading) = {}
        THEN StartsWith(new, text)
        ELSE LET k == Least(HeadingLines(text, heading))
                 later == {j \in Level2Lines(text) : j > k}
                 rest == IF later = {} THEN <<>>
                         ELSE SubSeq(text, Least(later), Len(text))
             IN  /\ StartsWith(new, SubSeq(text, 1, k - 1))
                 /\ EndsWith(new, rest)
                 /\ Len(new) >= (k - 1) + Len(rest)

\* where "\n## heading\n" occurs in t
MarkerAt(t, h) ==
    LET m == <<"\n", "## ">> \o h \o <<"\n">>
    IN  {k \in 1..Len(t) : k + Len(m) - 1 <= Len(t) /\ SubSeq(t, k, k + Len(m) - 1) = m}

\* where "\n## " occurs in t
Level2At(t) == {k \in 1..(Len(t) - 1) : t[k] = "\n" /\ t[k + 1] = "## "}

TrailingBlank(t) ==
    {n \in 0..Len(t) : \A j \in (Len(t) - n + 1)..Len(t) : t[j] \in {" ", "\n"}}

WithoutTrailingBlank(t) ==
    SubSeq(t, 1, Len(t) - CHOOSE n \in TrailingBlank(t) : \A j \in TrailingBlank(t) : n >= j)

\* C10 as amended: when the text holds "\n## heading\n", the text before its
\* first occurrence and the text from the next "\n## " on are in the written
\* document unchanged, the one at its beginning and the other at its end;
\* otherwise the text without its trailing whitespace is the beginning of
\* the written document.
C10_Frame ==
    pc = "readme_done" =>
        IF MarkerAt(text, heading) = {}
        THEN /\ StartsWith(new, WithoutTrailingBlank(text))
             /\ Len(new) > Len(WithoutTrailingBlank(text))
        ELSE LET k == Least(MarkerAt(text, heading))
                 later == {j \in Level2At(text) : j > k}
                 before == SubSeq(text, 1, k - 1)
                 rest == IF later = {} THEN <<>>
                         ELSE SubSeq(text, Least(later), Len(text))
             IN  /\ StartsWith(new, before)
                 /\ EndsWith(new, rest)
                 /\ Len(new) > Len(before) + Len(rest)

\* both an earlier text and a later section are kept around the replaced one
C10_Witness ==
    /\ pc = "readme_done"
    /\ heading = <<"H">>
    /\ text = <<"x", "\n", "## ", "H", "\n", "## ">>
    /\ new = <<"x", "\n", "## ", "H", "\n", "\n", "c", "\n", "\n", "## ">>

\* the heading is absent and the text ends in blank lines
C10_WitnessAppend ==
    /\ pc = "readme_done"
    /\ MarkerAt(text, heading) = {}
    /\ Len(text) >= 3
    /\ text[Len(text)] = "\n"
    /\ text[Len(text) - 1] = "\n"
    /\ text[1] = "x"

(***************************************************************************)
(* C11: a log line that does not split on "|" into exactly four fields     *)
(* (too few delimiters, or a subject holding the delimiter) makes          *)
(* graph_for_main fail: it is never taken for a record, and no graph is    *)
(* returned.                                                               *)
(***************************************************************************)
FieldCount(l) == Cardinality({j \in 1..Len(l) : l[j] = "|"}) + 1

C11_MalformedFails ==
    /\ \A k \in 1..idx : FieldCount(log[k]) = 4
    /\ pc = "graph_done" => \A k \in 1..Len(log) : FieldCount(log[k]) = 4

C13_MergePerExtraParent ==
    [][WalkStep =>
        LET e == log[idx + 1]
            added == LastAppended(lines, lines')
            resolvable == {j \in 2..Len(e.parents) : HeadIs(branches, e.parents[j]) # {}}
        IN  Len(e.parents) > 1 =>
                Cardinality({j \in 1..Len(added) : IsMerge(added[j])})
                    = Cardinality(resolvable)]_vars

(***************************************************************************)
(* C14: a merge line never names the branch that is current_branch when    *)
(* the line is emitted.                                                    *)
(***************************************************************************)
C14_NoSelfMerge ==
    [][WalkStep =>
        LET added == LastAppended(lines, lines')
        IN  \A j \in 1..Len(added) : ~IsMergeOf(added[j], current_branch')]_vars

====
